---- MODULE Spec2Model ----
(***************************************************************************)
(* Model of wsrpc.ReadWriteCloser (internal/pkg/wsrpc/rwc.go): a byte      *)
(* stream over a WebSocket connection.  Threads call Read, Write and Close *)
(* on one adapter; each step of a call is one action: taking the mutex,    *)
(* the critical section that follows it (up to Unlock, together with the   *)
(* local tests that follow), or one call into the connection, a message    *)
(* reader or a message writer.                                             *)
(***************************************************************************)
EXTENDS Integers, Sequences, FiniteSets, TLC

\* ---------------------------------------------------------------- bounds
MaxBuf == 3        \* longest caller buffer
MaxMsgLen == 3     \* longest inbound message
MaxMsgs == 2       \* inbound messages the connection delivers
MaxWriters == 2    \* outbound message writers the connection hands out
MaxOut == 3        \* most bytes one outbound message takes

\* Two threads call into the adapter.
Threads == {1, 2}
Nil == 0
Conn == 1

Min(a, b) == IF a < b THEN a ELSE b

\* The buffers given to Write: byte i of a buffer is i, so that a message holds
\* one buffer exactly when it is <<1, ..., len>>.
WBuffers == {[i \in 1..len |-> i] : len \in 0..MaxBuf}

VARIABLES
  mu,         \* rwc.mu: the thread holding it, or Nil
  ws,         \* rwc.ws: Conn or Nil
  r,          \* rwc.r: the stored message reader (its number), or Nil
  w,          \* rwc.w: the stored message writer (its number), or Nil
  loc,        \* per thread: position in its call, arguments, locals, results
  msgs,       \* inbound messages handed out so far: msgs[k] is reader k's length
  rpos,       \* rpos[k]: bytes consumed from reader k
  reof,       \* reof[k]: reader k has returned io.EOF
  wdata,      \* wdata[k]: bytes written into writer k
  wfin,       \* wfin[k]: times Close was invoked on writer k (2 = twice or more)
  connCloses, \* times ws.Close() was invoked (2 = twice or more)
  hist,       \* history of the Close calls
  delivered,  \* bytes returned by the Read calls, in the order of their return
  env         \* what the connection delivers and takes in this run

vars == <<mu, ws, r, w, loc, msgs, rpos, reof, wdata, wfin, connCloses,
          hist, delivered, env>>
adapter == <<mu, ws, r, w>>
inbound == <<msgs, rpos, reof>>
outbound == <<wdata, wfin>>

\* A thread between calls.  In a call, pc = "ret" is the return: n and err are
\* the results, and for Read buf is p[0:n].
Idle ==
  [pc |-> "idle", op |-> "none", plen |-> 0, buf |-> <<>>, n |-> 0, err |-> "nil",
   lr |-> Nil, lw |-> Nil, lws |-> Nil, cerr |-> "nil", ierr |-> "nil",
   took |-> FALSE, gets |-> 0,
   late |-> FALSE, didIO |-> FALSE]

\* NewReadWriteCloser(ws): ReadWriteCloser{ws: ws}
New ==
  /\ mu = Nil /\ ws = Conn /\ r = Nil /\ w = Nil
  /\ loc = [t \in Threads |-> Idle]
  /\ msgs = <<>> /\ rpos = <<>> /\ reof = <<>>
  /\ wdata = <<>> /\ wfin = <<>>
  /\ connCloses = 0
  /\ hist = [closeReturned |-> FALSE, takers |-> 0, closeFins |-> 0,
             fin |-> "none", connRes |-> "none"]
  /\ delivered = <<>>

\* One caller: the connection delivers up to MaxMsgs messages of up to MaxMsgLen
\* bytes and hands out up to MaxWriters writers taking up to MaxOut bytes.
InitSeq ==
  /\ New
  /\ env = [msgs |-> MaxMsgs, lens |-> 0..MaxMsgLen, writers |-> MaxWriters,
            out |-> MaxOut]

\* Concurrent callers: two inbound messages of one byte, two message writers
\* taking up to two bytes.
Init ==
  /\ New
  /\ env = [msgs |-> 2, lens |-> {1}, writers |-> 2, out |-> 2]

Set(t, l) == loc' = [loc EXCEPT ![t] = l]
Inc2(c) == Min(c + 1, 2)

\* Bytes i+1..i+m of inbound message k; every byte of the stream is distinct.
Chunk(k, i, m) == [j \in 1..m |-> <<k, i + j>>]
Message(k) == Chunk(k, 0, msgs[k])

\* sync.Mutex.Lock: block until the mutex is free.
Lock(t, from, to) ==
  /\ loc[t].pc = from
  /\ mu = Nil
  /\ mu' = t
  /\ Set(t, [loc[t] EXCEPT !.pc = to])
  /\ UNCHANGED <<ws, r, w, inbound, outbound, connCloses, hist, delivered, env>>

\* A critical section that returns to its I/O without rwc.mu.Unlock().
KeepLocked(t) == t
\* rwc.mu.Unlock(), which ends every critical section.
Unlock(t) == Nil

\* A call starts: the named results n and err are zero, the locals nil.
Begin(t, o, first, len, b) ==
  /\ loc[t].pc = "idle"
  /\ Set(t, [Idle EXCEPT !.pc = first, !.op = o, !.plen = len, !.buf = b,
                         !.late = hist.closeReturned])
  /\ UNCHANGED <<adapter, inbound, outbound, connCloses, hist, delivered, env>>

\* ------------------------------------------------------------------ Read
BeginRead(t, len) == Begin(t, "read", "R_lock1", len, <<>>)

\* A step of Read that leaves the local state l.
ReadStep(t, l) ==
  /\ Set(t, l)
  /\ UNCHANGED <<delivered, env>>

\* for n = 0; n < len(p); { ... }: where Read goes when it reaches the loop test.
ReadLoop(l) == IF l.n < l.plen THEN "R_read" ELSE "ret"

\* A Read that does not test ws.
ReadNeverClosed(h) == FALSE
\* if ws == nil { return 0, io.ErrClosedPipe }
ReadClosed(h) == h = Nil

\* ws = rwc.ws; r = rwc.r; Unlock; the tests of ws and of r.
RSnap(t) ==
  /\ loc[t].pc = "R_snap"
  /\ mu' = Unlock(t)
  /\ LET l == [loc[t] EXCEPT !.lws = ws, !.lr = r]
     IN ReadStep(t, IF ReadClosed(l.lws)
                      THEN [l EXCEPT !.pc = "ret", !.n = 0, !.err = "ErrClosedPipe"]
                    ELSE IF l.lr = Nil THEN [l EXCEPT !.pc = "R_next"]
                    ELSE [l EXCEPT !.pc = ReadLoop(l)])
  /\ UNCHANGED <<ws, r, w, inbound, outbound, connCloses, hist>>

\* _, r, err = ws.NextReader() succeeds: the next inbound message gets reader
\* number Len(msgs) + 1.
RNext(t) ==
  /\ loc[t].pc = "R_next"
  /\ Len(msgs) < env.msgs
  /\ \E len \in env.lens :
       /\ msgs' = Append(msgs, len)
       /\ rpos' = Append(rpos, 0)
       /\ reof' = Append(reof, FALSE)
  /\ ReadStep(t, [loc[t] EXCEPT !.lr = Len(msgs) + 1, !.pc = "R_lock2", !.didIO = TRUE,
                                !.gets = Inc2(@)])
  /\ UNCHANGED <<adapter, outbound, connCloses, hist>>

\* ws.NextReader() fails: return 0, err.
RNextFail(t) ==
  /\ loc[t].pc = "R_next"
  /\ ReadStep(t, [loc[t] EXCEPT !.pc = "ret", !.n = 0, !.err = "ErrNextReader",
                                !.didIO = TRUE, !.gets = Inc2(@)])
  /\ UNCHANGED <<adapter, inbound, outbound, connCloses, hist>>

\* A Read that stores its reader without testing rwc.ws again.
StoreNeverClosed(h) == FALSE
\* if rwc.ws == nil { Unlock; return 0, io.ErrClosedPipe }
StoreClosed(h) == h = Nil

\* The second critical section of Read: rwc.r = r unless the adapter was closed.
RStore(t) ==
  /\ loc[t].pc = "R_store"
  /\ mu' = Unlock(t)
  /\ IF StoreClosed(ws)
       THEN /\ r' = r
            /\ ReadStep(t, [loc[t] EXCEPT !.pc = "ret", !.n = 0, !.err = "ErrClosedPipe"])
       ELSE /\ r' = loc[t].lr
            /\ ReadStep(t, [loc[t] EXCEPT !.pc = ReadLoop(loc[t])])
  /\ UNCHANGED <<ws, w, inbound, outbound, connCloses, hist>>

\* r.Read(p) in place of r.Read(p[n:]): the bytes go to the start of p.
FillFromStart(b, chunk) ==
  chunk \o SubSeq(b, Len(chunk) + 1, Len(b))
\* r.Read(p[n:]) puts its bytes after the n bytes p already holds.
Fill(b, chunk) == b \o chunk

\* A Read that takes every error of the message reader for the end of the
\* message.
AnyError(e) == e # "nil"
\* if err == io.EOF { ...; break }
EndOfMessage(e) == e = "EOF"

\* m, err = r.Read(p[n:]); n += m, and the tests of err that follow.
ReadResult(t, m, e) ==
  LET k == loc[t].lr
      l == [loc[t] EXCEPT !.buf = Fill(@, Chunk(k, rpos[k], m)), !.n = @ + m,
                          !.err = e, !.didIO = TRUE]
  IN /\ rpos' = [rpos EXCEPT ![k] = @ + m]
     /\ reof' = [reof EXCEPT ![k] = @ \/ e = "EOF"]
     /\ msgs' = msgs
     /\ ReadStep(t, IF EndOfMessage(e) THEN [l EXCEPT !.pc = "R_lock3"]
                    ELSE IF e # "nil" THEN [l EXCEPT !.pc = "ret"]
                    ELSE [l EXCEPT !.pc = ReadLoop(l)])
     /\ UNCHANGED <<adapter, outbound, connCloses, hist>>

Left(k) == IF reof[k] THEN 0 ELSE msgs[k] - rpos[k]

\* The message reader (an io.Reader): at least one byte while the message has
\* some, io.EOF with the last bytes or after them.
RRead(t) ==
  /\ loc[t].pc = "R_read"
  /\ LET k == loc[t].lr
         cap == loc[t].plen - loc[t].n
     IN \/ /\ Left(k) > 0
           /\ \E m \in 1..Min(cap, Left(k)) :
                \E e \in (IF m = Left(k) THEN {"nil", "EOF"} ELSE {"nil"}) :
                  ReadResult(t, m, e)
        \/ /\ Left(k) = 0
           /\ ReadResult(t, 0, "EOF")

\* The message reader fails with a transport error after m bytes.
RReadFail(t) ==
  /\ loc[t].pc = "R_read"
  /\ \E m \in 0..Min(loc[t].plen - loc[t].n, Left(loc[t].lr)) :
       /\ ReadResult(t, m, "ErrRead")

\* if rwc.r == r { rwc.r = nil }
ClearReader(cur, used) == IF cur = used THEN Nil ELSE cur

\* A Read that goes on to the next message when the buffer is not full.
NextMessage(l) == IF l.n < l.plen THEN "R_next" ELSE "ret"
\* break: the end of a message ends the loop, and Read returns.
Break(l) == "ret"

\* The critical section after io.EOF, the break and the return of n and io.EOF.
RClear(t) ==
  /\ loc[t].pc = "R_clear"
  /\ mu' = Unlock(t)
  /\ r' = ClearReader(r, loc[t].lr)
  /\ ReadStep(t, [loc[t] EXCEPT !.pc = Break(loc[t])])
  /\ UNCHANGED <<ws, w, inbound, outbound, connCloses, hist>>

\* ----------------------------------------------------------------- Write
BeginWrite(t, b) == Begin(t, "write", "W_lock1", Len(b), b)

\* A Write that finalizes only a message it wrote bytes into.
WriteEndNonEmpty(l) ==
  IF l.err # "nil" \/ (l.n = l.plen /\ l.n > 0) THEN "W_close" ELSE "ret"
\* if err != nil || n == len(p) { closeErr := w.Close(); ... }; return
WriteEnd(l) == IF l.err # "nil" \/ l.n = l.plen THEN "W_close" ELSE "ret"

\* for n = 0; n < len(p); { ... }: where Write goes when it reaches the loop test.
WriteLoop(l) == IF l.n < l.plen THEN "W_write" ELSE WriteEnd(l)

\* A Write that does not test ws.
WriteNeverClosed(h) == FALSE
\* if ws == nil { return 0, io.ErrClosedPipe }
WriteClosed(h) == h = Nil

\* ws = rwc.ws; w = rwc.w; Unlock; the tests of ws and of w.
WSnap(t) ==
  /\ loc[t].pc = "W_snap"
  /\ mu' = Unlock(t)
  /\ LET l == [loc[t] EXCEPT !.lws = ws, !.lw = w]
     IN Set(t, IF WriteClosed(l.lws)
                 THEN [l EXCEPT !.pc = "ret", !.n = 0, !.err = "ErrClosedPipe"]
               ELSE IF l.lw = Nil THEN [l EXCEPT !.pc = "W_next"]
               ELSE [l EXCEPT !.pc = WriteLoop(l)])
  /\ UNCHANGED <<ws, r, w, inbound, outbound, connCloses, hist, delivered, env>>

\* w, err = ws.NextWriter(websocket.TextMessage) succeeds: an empty message
\* writer, number Len(wdata) + 1.
WNext(t) ==
  /\ loc[t].pc = "W_next"
  /\ Len(wdata) < env.writers
  /\ wdata' = Append(wdata, <<>>)
  /\ wfin' = Append(wfin, 0)
  /\ Set(t, [loc[t] EXCEPT !.lw = Len(wdata) + 1, !.pc = "W_lock2", !.didIO = TRUE,
                           !.gets = Inc2(@)])
  /\ UNCHANGED <<adapter, inbound, connCloses, hist, delivered, env>>

\* ws.NextWriter() fails: return 0, err.
WNextFail(t) ==
  /\ loc[t].pc = "W_next"
  /\ Set(t, [loc[t] EXCEPT !.pc = "ret", !.n = 0, !.err = "ErrNextWriter",
                           !.didIO = TRUE, !.gets = Inc2(@)])
  /\ UNCHANGED <<adapter, inbound, outbound, connCloses, hist, delivered, env>>

\* A Write that stores its writer without testing rwc.ws again.
WStoreNeverClosed(h) == FALSE
\* if rwc.ws == nil { Unlock; _ = w.Close(); return 0, io.ErrClosedPipe }
WStoreClosed(h) == h = Nil

\* The second critical section of Write: rwc.w = w unless the adapter was closed.
WStore(t) ==
  /\ loc[t].pc = "W_store"
  /\ mu' = Unlock(t)
  /\ IF WStoreClosed(ws)
       THEN /\ w' = w
            /\ Set(t, [loc[t] EXCEPT !.pc = "W_discard"])
       ELSE /\ w' = loc[t].lw
            /\ Set(t, [loc[t] EXCEPT !.pc = WriteLoop(loc[t])])
  /\ UNCHANGED <<ws, r, inbound, outbound, connCloses, hist, delivered, env>>

\* w.Close() on message writer k (an io.WriteCloser), with result e.
Finalize(k, e) ==
  /\ wfin' = [wfin EXCEPT ![k] = Inc2(@)]
  /\ wdata' = wdata

\* _ = w.Close(); return 0, io.ErrClosedPipe
WDiscard(t) ==
  /\ loc[t].pc = "W_discard"
  /\ \E e \in {"nil", "ErrFinalize"} : Finalize(loc[t].lw, e)
  /\ Set(t, [loc[t] EXCEPT !.pc = "ret", !.n = 0, !.err = "ErrClosedPipe",
                           !.didIO = TRUE])
  /\ UNCHANGED <<adapter, inbound, connCloses, hist, delivered, env>>

\* m, err = w.Write(p[n:]): the loop assigns the named result err.
LoopErrAssigned(outer, inner) == inner
\* m, err := w.Write(p[n:]) declares a new err inside the loop body: the named
\* result err keeps its value.
LoopErr(outer, inner) == outer

\* m, err := w.Write(p[n:]); n += m; if err != nil { break }, and the tests
\* after the loop.
WriteResult(t, m, e) ==
  LET k == loc[t].lw
      l == [loc[t] EXCEPT !.n = @ + m, !.ierr = e, !.err = LoopErr(@, e),
                          !.didIO = TRUE]
  IN /\ Len(wdata[k]) + m <= env.out
     /\ wdata' = [wdata EXCEPT ![k] = @ \o SubSeq(loc[t].buf, loc[t].n + 1, loc[t].n + m)]
     /\ wfin' = wfin
     /\ Set(t, IF e # "nil" THEN [l EXCEPT !.pc = WriteEnd(l)]
               ELSE [l EXCEPT !.pc = WriteLoop(l)])
     /\ UNCHANGED <<adapter, inbound, connCloses, hist, delivered, env>>

\* The message writer (an io.Writer) takes all of p[n:].
WWrite(t) ==
  /\ loc[t].pc = "W_write"
  /\ wfin[loc[t].lw] = 0
  /\ WriteResult(t, loc[t].plen - loc[t].n, "nil")

\* The message writer fails after m bytes (none when it is already closed).
WWriteFail(t) ==
  /\ loc[t].pc = "W_write"
  /\ \E m \in 0..(IF wfin[loc[t].lw] = 0 THEN loc[t].plen - loc[t].n ELSE 0) :
       WriteResult(t, m, "ErrWrite")

\* closeErr := w.Close()
WClose(t) ==
  /\ loc[t].pc = "W_close"
  /\ \E e \in {"nil", "ErrFinalize"} :
       /\ Finalize(loc[t].lw, e)
       /\ Set(t, [loc[t] EXCEPT !.cerr = e, !.pc = "W_lock3", !.didIO = TRUE])
  /\ UNCHANGED <<adapter, inbound, connCloses, hist, delivered, env>>

\* if rwc.w == w { rwc.w = nil }
ClearWriter(cur, used) == IF cur = used THEN Nil ELSE cur

\* The critical section after w.Close(); if err == nil { err = closeErr }; return
WClear(t) ==
  /\ loc[t].pc = "W_clear"
  /\ mu' = Unlock(t)
  /\ w' = ClearWriter(w, loc[t].lw)
  /\ Set(t, [loc[t] EXCEPT !.pc = "ret",
                           !.err = IF @ = "nil" THEN loc[t].cerr ELSE @])
  /\ UNCHANGED <<ws, r, inbound, outbound, connCloses, hist, delivered, env>>

\* ----------------------------------------------------------------- Close
BeginClose(t) == Begin(t, "close", "C_lock", 0, <<>>)

\* A step of Close that leaves the local state l and the history h.
CloseStep(t, l, h) ==
  /\ Set(t, l)
  /\ hist' = h
  /\ env' = env

\* A Close that leaves rwc.ws as it is.
KeepConn(h) == h
\* rwc.ws = nil
TakeConn(h) == Nil

\* if ws != nil { return ws.Close() }; return nil
CloseConn(l) == IF l.lws # Nil THEN [l EXCEPT !.pc = "C_conn"] ELSE [l EXCEPT !.pc = "ret"]

\* w = rwc.w; rwc.w = nil; rwc.r = nil; ws = rwc.ws; rwc.ws = nil; Unlock, and
\* the test of w.
CTake(t) ==
  /\ loc[t].pc = "C_take"
  /\ mu' = Unlock(t)
  /\ w' = Nil
  /\ r' = Nil
  /\ ws' = TakeConn(ws)
  /\ LET l == [loc[t] EXCEPT !.lw = w, !.lws = ws, !.took = (w # Nil \/ ws # Nil)]
         h == IF l.took THEN [hist EXCEPT !.takers = Inc2(@)] ELSE hist
     IN CloseStep(t, IF l.lw # Nil THEN [l EXCEPT !.pc = "C_fin"] ELSE CloseConn(l), h)
  /\ UNCHANGED <<inbound, outbound, connCloses, delivered>>

\* A Close that goes on to ws.Close() after a failed w.Close().
FinalizeNeverFails(e) == FALSE
\* if err = w.Close(); err != nil { return err }
FinalizeFailed(e) == e # "nil"

\* if w != nil { if err = w.Close(); err != nil { return err } }
CFin(t) ==
  /\ loc[t].pc = "C_fin"
  /\ \E e \in {"nil", "ErrFinalize"} :
       /\ Finalize(loc[t].lw, e)
       /\ LET l == [loc[t] EXCEPT !.err = e, !.cerr = e, !.didIO = TRUE]
              h == [hist EXCEPT !.closeFins = Inc2(@),
                                !.fin = IF e = "nil" THEN "ok" ELSE "fail"]
          IN CloseStep(t, IF FinalizeFailed(e) THEN [l EXCEPT !.pc = "ret"]
                          ELSE CloseConn(l), h)
  /\ UNCHANGED <<adapter, inbound, connCloses, delivered>>

\* return ws.Close()
CConn(t) ==
  /\ loc[t].pc = "C_conn"
  /\ connCloses' = Inc2(connCloses)
  /\ \E e \in {"nil", "ErrConnClose"} :
       CloseStep(t, [loc[t] EXCEPT !.err = e, !.pc = "ret", !.didIO = TRUE],
                 [hist EXCEPT !.connRes = e])
  /\ UNCHANGED <<adapter, inbound, outbound, delivered>>

\* The call returns to its caller.
Return(t) ==
  /\ loc[t].pc = "ret"
  /\ Set(t, Idle)
  /\ delivered' = IF loc[t].op = "read" THEN delivered \o loc[t].buf ELSE delivered
  /\ hist' = IF loc[t].op = "close" THEN [hist EXCEPT !.closeReturned = TRUE] ELSE hist
  /\ UNCHANGED <<adapter, inbound, outbound, connCloses, env>>

\* ---------------------------------------------------------- specifications
\* The steps of a Read call in progress.
ReadSteps(t) ==
  \/ Lock(t, "R_lock1", "R_snap") \/ RSnap(t)
  \/ RNext(t) \/ RNextFail(t)
  \/ Lock(t, "R_lock2", "R_store") \/ RStore(t)
  \/ RRead(t) \/ RReadFail(t)
  \/ Lock(t, "R_lock3", "R_clear") \/ RClear(t)

\* The steps of a Write call in progress, but the one only a concurrent Close
\* leads to.
WriteSteps(t) ==
  \/ Lock(t, "W_lock1", "W_snap") \/ WSnap(t)
  \/ WNext(t) \/ WNextFail(t)
  \/ Lock(t, "W_lock2", "W_store") \/ WStore(t)
  \/ WWrite(t) \/ WWriteFail(t)
  \/ WClose(t)
  \/ Lock(t, "W_lock3", "W_clear") \/ WClear(t)

\* The steps of a Close call in progress.
CloseSteps(t) ==
  \/ Lock(t, "C_lock", "C_take") \/ CTake(t)
  \/ CFin(t) \/ CConn(t)

NoCall == \A t \in Threads : loc[t].pc = "idle"

\* One caller of Read and Close: a call starts when the one before has returned.
NextRead ==
  \/ NoCall /\ \E len \in 0..MaxBuf : BeginRead(1, len)
  \/ NoCall /\ BeginClose(1)
  \/ ReadSteps(1)
  \/ Lock(1, "C_lock", "C_take") \/ CTake(1) \/ CConn(1)
  \/ Return(1)
SpecRead == InitSeq /\ [][NextRead]_vars

\* One caller of Write and Close: a call starts when the one before has returned.
NextWrite ==
  \/ NoCall /\ \E b \in WBuffers : BeginWrite(1, b)
  \/ NoCall /\ BeginClose(1)
  \/ WriteSteps(1) \/ CloseSteps(1) \/ Return(1)
SpecWrite == InitSeq /\ [][NextWrite]_vars

\* Threads call Read, Write and Close concurrently, with buffers of one byte.
Next ==
  \E t \in Threads :
    \/ BeginRead(t, 1)
    \/ BeginWrite(t, <<1>>)
    \/ BeginClose(t)
    \/ ReadSteps(t) \/ WriteSteps(t) \/ WDiscard(t) \/ CloseSteps(t)
    \/ Return(t)
Spec == Init /\ [][Next]_vars

\* Thread 1 calls Close while thread 2 calls Read and Write. The closing
\* thread is scheduled whenever it can take a step; nothing makes thread 2 or
\* its connection, reader or writer go on, so any of its calls may block for
\* ever.
NextLive ==
  \/ BeginClose(1) \/ CloseSteps(1) \/ Return(1)
  \/ BeginRead(2, 1) \/ BeginWrite(2, <<1>>)
  \/ ReadSteps(2) \/ WriteSteps(2) \/ WDiscard(2) \/ Return(2)
SpecLive == Init /\ [][NextLive]_vars /\ WF_vars(CloseSteps(1))

\* ------------------------------------------------------------------ claims
InCall(t, o) == loc[t].op = o /\ loc[t].pc # "idle"
Returning(t, o) == loc[t].op = o /\ loc[t].pc = "ret"

\* C1: a Read or Write call that starts after some Close call has returned
\* makes no call on the connection, a message reader or a message writer, goes
\* no further than its first test of ws, and returns 0 and io.ErrClosedPipe.
C1_ClosedAfterClose ==
  \A t \in Threads :
    (loc[t].late /\ (InCall(t, "read") \/ InCall(t, "write"))) =>
      /\ ~loc[t].didIO
      /\ loc[t].pc \in {"R_lock1", "R_snap", "W_lock1", "W_snap", "ret"}
      /\ loc[t].pc = "ret" => (loc[t].n = 0 /\ loc[t].err = "ErrClosedPipe")

\* A Read and a Write, both started after a Close returned, are returning.
C1_Witness ==
  \E t, u \in Threads :
    /\ Returning(t, "read") /\ loc[t].late
    /\ Returning(u, "write") /\ loc[u].late

\* C2: a Write call that returns n = len(p) after it got a message writer has
\* put exactly its buffer into that writer, which holds nothing else and was
\* finalized once, before the return.
C2_OneMessagePerWrite ==
  \A t \in Threads :
    (Returning(t, "write") /\ loc[t].lw # Nil /\ loc[t].n = loc[t].plen) =>
      /\ wdata[loc[t].lw] = loc[t].buf
      /\ wfin[loc[t].lw] = 1

\* The inbound messages handed out so far, end to end.
RECURSIVE StreamTo(_)
StreamTo(k) == IF k = 0 THEN <<>> ELSE StreamTo(k - 1) \o Message(k)
Stream == StreamTo(Len(msgs))

\* The bytes the message readers have given out so far, reader after reader.
RECURSIVE ConsumedTo(_)
ConsumedTo(k) ==
  IF k = 0 THEN <<>> ELSE ConsumedTo(k - 1) \o Chunk(k, 0, rpos[k])
Consumed == ConsumedTo(Len(msgs))

IsPrefix(a, b) == Len(a) <= Len(b) /\ a = SubSeq(b, 1, Len(a))

\* The bytes of the Read call in progress, which its return hands over.
Pending(t) == IF InCall(t, "read") THEN loc[t].buf ELSE <<>>

\* C3: with one caller, the bytes returned by the Read calls (with those the
\* call in progress holds) are the bytes taken from the message readers, none
\* lost or repeated, and are a prefix of m1, m2, ... end to end; they are all
\* of it once every message has reached its end and no call is in progress.
C3_ReadConcatenation ==
  /\ delivered \o Pending(1) = Consumed
  /\ IsPrefix(Consumed, Stream)
  /\ (NoCall /\ \A k \in 1..Len(msgs) : reof[k]) => delivered = Stream

\* Two messages, one of them of two bytes or more, are drained.
C3_Witness ==
  /\ NoCall
  /\ Len(msgs) = 2
  /\ \A k \in 1..Len(msgs) : reof[k]
  /\ \E k \in 1..Len(msgs) : msgs[k] >= 2
  /\ delivered = Stream

\* C4: a Read call never returns io.EOF as its error.
C4_EndOfMessageNotReturned ==
  \A t \in Threads : Returning(t, "read") => loc[t].err # "EOF"

\* C5: a Write call whose message writer failed returns that error, and a Write
\* call never returns n < len(p) with a nil error.
C5_WriteErrorReturned ==
  \A t \in Threads :
    Returning(t, "write") =>
      /\ loc[t].ierr # "nil" => loc[t].err = loc[t].ierr
      /\ loc[t].n < loc[t].plen => loc[t].err # "nil"

\* C6: a Write call that got or used a message writer has finalized it and
\* cleared rwc.w when it returns, and with one caller rwc.w is nil whenever no
\* call is in progress.
C6_WriterFinalizedAndCleared ==
  /\ \A t \in Threads :
       (Returning(t, "write") /\ loc[t].lw # Nil) =>
         (wfin[loc[t].lw] >= 1 /\ w = Nil)
  /\ NoCall => w = Nil

\* C7: ws.Close() is invoked at most once and Close finalizes a writer at most
\* once; one Close call takes the handles, which is the one that clears ws, and
\* every other Close call makes no call on a writer or the connection and
\* returns nil.
C7_OneTeardown ==
  /\ connCloses <= 1
  /\ hist.closeFins <= 1
  /\ hist.takers <= 1
  /\ ws = Nil => hist.takers = 1
  /\ \A t \in Threads :
       (InCall(t, "close") /\ loc[t].pc \notin {"C_lock", "C_take"} /\ ~loc[t].took) =>
         (loc[t].pc = "ret" /\ ~loc[t].didIO /\ loc[t].err = "nil")

\* Two Close calls are returning: one took the handles, the other did not.
C7_Witness ==
  \E t, u \in Threads :
    /\ Returning(t, "close") /\ loc[t].took /\ loc[t].didIO
    /\ Returning(u, "close") /\ ~loc[u].took

\* C8: once the finalization by Close has failed, ws.Close() is never invoked;
\* the Close call that took the handles returns the finalization error in that
\* case, and otherwise has invoked ws.Close() once and returns its result.
C8_CloseResult ==
  /\ hist.fin = "fail" => connCloses = 0
  /\ \A t \in Threads :
       (Returning(t, "close") /\ loc[t].took) =>
         IF loc[t].lw # Nil /\ loc[t].cerr # "nil"
           THEN loc[t].err = "ErrFinalize" /\ connCloses = 0 /\ ws = Nil
           ELSE connCloses = 1 /\ loc[t].err = hist.connRes

\* A Close call that took an open writer returns its finalization error.
C8_Witness ==
  \E t \in Threads :
    /\ Returning(t, "close") /\ loc[t].took
    /\ loc[t].lw # Nil /\ loc[t].cerr = "ErrFinalize"

\* C9: whenever rwc.ws is nil, rwc.r and rwc.w are nil.
C9_ClosedHoldsNoHandle == ws = Nil => (r = Nil /\ w = Nil)

\* While a Close call that cleared the fields is in progress, a Read that
\* obtained a message reader returns without having stored it.
C9_Witness ==
  /\ ws = Nil
  /\ \E t, u \in Threads :
       /\ Returning(t, "read") /\ loc[t].lr # Nil /\ loc[t].err = "ErrClosedPipe"
       /\ InCall(u, "close") /\ loc[u].took

\* C10: at most one message reader that has not returned io.EOF exists, so
\* NextReader is not invoked while an earlier reader is not at its end.
C10_OneOpenReader ==
  Cardinality({k \in 1..Len(msgs) : ~reof[k]}) <= 1

\* C11: under concurrent Write calls at most one outbound message is open at
\* a time (NextWriter is not invoked while an earlier writer is not finalized),
\* and one message writer holds bytes of one Write call only: its content is a
\* prefix of a single buffer.
OpenWriters == {k \in 1..Len(wfin) : wfin[k] = 0}
C11_OneOpenWriter ==
  /\ Cardinality(OpenWriters) <= 1
  /\ \A k \in 1..Len(wdata) : wdata[k] = [i \in 1..Len(wdata[k]) |-> i]

\* C12: no thread holds rwc.mu while it is inside a call to the connection, a
\* message reader or a message writer (NextReader, NextWriter, Read, Write,
\* the writer's Close, the connection's Close): the thread that holds the lock
\* is in a critical section that only reads or assigns rwc.ws, rwc.r, rwc.w.
CriticalSections ==
  {"R_snap", "R_store", "R_clear", "W_snap", "W_store", "W_clear", "C_take"}
UnderlyingCalls ==
  {"R_next", "R_read", "W_next", "W_write", "W_close", "W_discard", "C_fin", "C_conn"}
C12_NoLockDuringIO ==
  \A t \in Threads :
    /\ loc[t].pc \in UnderlyingCalls => mu # t
    /\ mu = t => loc[t].pc \in CriticalSections
\* A Close call holds the lock while another thread is inside the Read or Write
\* of a message reader or writer.
C12_Witness ==
  \E t, u \in Threads :
    /\ loc[t].pc \in {"R_read", "W_write"}
    /\ loc[u].pc = "C_take" /\ mu = u

\* C13: CLOSED is terminal. rwc.ws is set at construction only and cleared by
\* Close only: a step that changes it is the critical section of a Close call,
\* that critical section leaves it nil, and once it is nil every later step
\* leaves it nil, whatever calls follow or are still in flight.
ClosesNow(t) ==
  loc[t].op = "close" /\ loc[t].pc = "C_take" /\ loc'[t].pc # "C_take"
C13_ClosedIsTerminal ==
  [][/\ ws = Nil => ws' = Nil
     /\ ws' # ws => \E t \in Threads : ClosesNow(t)
     /\ \A t \in Threads : ClosesNow(t) => ws' = Nil]_vars
\* A Close call has cleared rwc.ws and is returning while a Read or a Write
\* that began before it is still inside its message reader or writer.
C13_Witness ==
  /\ ws = Nil
  /\ \E t, u \in Threads :
       loc[t].pc \in {"R_read", "W_write"} /\ Returning(u, "close")

\* C14: a Read or Write that obtained its reader or writer and then finds the
\* adapter closed (Close cleared the handles while NextReader or NextWriter
\* was running) does not store the handle and returns (0, io.ErrClosedPipe)
\* with no payload read or written; the Write finalizes the writer it
\* discards before it returns.
Leaves(t, at) == loc[t].pc = at /\ loc'[t].pc # at
ClosedReturn(t, o) ==
  /\ loc'[t].pc = "ret" /\ loc'[t].op = o
  /\ loc'[t].n = 0 /\ loc'[t].err = "ErrClosedPipe"
C14_ClosedWhileObtaining ==
  [][\A t \in Threads :
       /\ (Leaves(t, "R_store") /\ ws = Nil) =>
            /\ r' = r /\ inbound' = inbound
            /\ ClosedReturn(t, "read") /\ loc'[t].buf = <<>>
       /\ (Leaves(t, "W_store") /\ ws = Nil) =>
            /\ w' = w /\ outbound' = outbound
            /\ loc'[t].pc = "W_discard"
       /\ Leaves(t, "W_discard") =>
            /\ w' = w /\ ClosedReturn(t, "write")
            /\ wdata'[loc[t].lw] = <<>> /\ wfin'[loc[t].lw] = 1]_vars
\* A Write that obtained a writer while Close cleared the handles is returning:
\* the writer is finalized, empty, and not stored.
C14_Witness ==
  \E t \in Threads :
    /\ Returning(t, "write") /\ loc[t].err = "ErrClosedPipe" /\ loc[t].gets = 1
    /\ wfin[loc[t].lw] = 1 /\ w = Nil /\ ws = Nil

\* C15: under concurrent Write and Close calls every message writer is
\* finalized at most once: two calls that hold the same writer never both
\* invoke its Close.
C15_FinalizedOnce == \A k \in 1..Len(wfin) : wfin[k] <= 1

\* C16: one Read call invokes NextReader at most once and returns bytes of at
\* most one inbound message: at the end of the message, with the buffer not
\* full, it clears rwc.r and returns the short count, and no message is
\* fetched before the next Read call.
C16_OneMessagePerRead ==
  \A t \in Threads :
    InCall(t, "read") =>
      /\ loc[t].gets <= 1
      /\ \A i \in 1..Len(loc[t].buf) : loc[t].buf[i][1] = loc[t].lr
      /\ (loc[t].pc = "ret" /\ loc[t].err = "EOF") =>
           /\ r = Nil /\ loc[t].n = Len(loc[t].buf)
           /\ reof[loc[t].lr] /\ Len(msgs) = loc[t].lr
\* A Read returns fewer bytes than its buffer holds, at the end of a message,
\* while the connection has another message to give.
C16_Witness ==
  /\ Returning(1, "read") /\ loc[1].err = "EOF" /\ r = Nil
  /\ 0 < loc[1].n /\ loc[1].n < loc[1].plen
  /\ Len(msgs) < env.msgs

\* C17: a Read whose message reader fails with an error other than io.EOF
\* returns the bytes read so far with that error and leaves rwc.r naming the
\* failing reader, so the next Read does not reach NextReader; a Read whose
\* NextReader fails returns 0 bytes with that error and leaves rwc.ws, rwc.r
\* and rwc.w as they were.
C17_ReadErrorKeepsReader ==
  \A t \in Threads :
    /\ (Returning(t, "read") /\ loc[t].err = "ErrRead") =>
         /\ loc[t].n = Len(loc[t].buf)
         /\ loc[t].lr # Nil /\ r = loc[t].lr /\ ~reof[r]
    /\ (Returning(t, "read") /\ loc[t].err = "ErrNextReader") =>
         /\ loc[t].n = 0 /\ loc[t].buf = <<>>
         /\ r = Nil /\ ws = Conn /\ w = Nil
    /\ (InCall(t, "read") /\ loc[t].pc = "R_next") => r = Nil
\* A Read that found a reader stored by an earlier call returns bytes and the
\* error of that reader, which stays in rwc.r.
C17_Witness ==
  /\ Returning(1, "read") /\ loc[1].err = "ErrRead"
  /\ loc[1].gets = 0 /\ loc[1].n > 0 /\ r = loc[1].lr

\* C18: a Write that wrote its whole buffer without error and whose writer
\* then fails to finalize returns n = len(p) with the finalization error and
\* rwc.w cleared; a Write with an earlier write error returns that error and
\* not the finalization error.
C18_FinalizeErrorReturned ==
  \A t \in Threads :
    (Returning(t, "write") /\ loc[t].lw # Nil /\ loc[t].err # "ErrClosedPipe") =>
      /\ (loc[t].ierr = "nil" /\ loc[t].cerr # "nil") =>
           /\ loc[t].n = loc[t].plen /\ loc[t].err = loc[t].cerr
           /\ w = Nil
      /\ loc[t].ierr # "nil" => loc[t].err = loc[t].ierr

\* C20: a Write with an empty buffer on an open adapter with no open writer
\* obtains a new writer, writes nothing to it, finalizes it at once (one
\* message of length zero), leaves rwc.w nil and returns 0 bytes with the
\* result of the finalization as its error.
C20_EmptyWrite ==
  \A t \in Threads :
    (InCall(t, "write") /\ loc[t].plen = 0 /\ loc[t].gets = 1 /\ loc[t].lw # Nil) =>
      /\ wdata[loc[t].lw] = <<>> /\ loc[t].n = 0 /\ loc[t].ierr = "nil"
      /\ loc[t].pc \in {"W_lock2", "W_store", "W_close", "W_lock3", "W_clear", "ret"}
      /\ loc[t].pc = "ret" =>
           /\ wfin[loc[t].lw] = 1 /\ w = Nil
           /\ loc[t].err = loc[t].cerr
\* An empty Write that obtained its writer is returning the error of the
\* finalization.
C20_Witness ==
  /\ Returning(1, "write") /\ loc[1].plen = 0 /\ loc[1].gets = 1
  /\ loc[1].lw # Nil /\ loc[1].err = "ErrFinalize" /\ wfin[loc[1].lw] = 1

\* C19: with the closing thread scheduled fairly, a Close call that waits for
\* the lock reaches the step that clears rwc.ws, rwc.r and rwc.w even when the
\* other thread stays for ever inside NextReader, NextWriter, a message Read or
\* a message Write: blocked I/O does not keep Close from the lock.
BlockingCalls == {"R_next", "R_read", "W_next", "W_write"}
Cleared(t) ==
  /\ loc[t].pc \notin {"C_lock", "C_take"}
  /\ ws = Nil /\ r = Nil /\ w = Nil
C19_CloseNotBlockedByIO ==
  <>[](loc[2].pc \in BlockingCalls) => (loc[1].pc = "C_lock" ~> Cleared(1))
\* Close has cleared the handles while the other thread is inside a call of
\* the connection, the reader or the writer.
C19_Witness ==
  /\ InCall(1, "close") /\ Cleared(1)
  /\ loc[2].pc \in BlockingCalls
====
